---- MODULE Spec2Model ----
(***************************************************************************)
(* Brent oil change-point analysis: the posterior-to-report reduction and  *)
(* the impact and event helpers (src/modelling/analysis_utils.py), the     *)
(* Bayesian change-point model (src/modelling/bayesian_cp_model.py), the   *)
(* log-return preprocessor and its pipeline                                *)
(* (src/data_processing/preprocess.py) and the change-points endpoint      *)
(* (src/dashboard/backend/api_endpoints.py).                               *)
(*                                                                         *)
(* Each component is a pure, synchronous computation.  A specification     *)
(* draws the component's inputs in Init and its actions apply the          *)
(* component's functions; the other components stay idle.                  *)
(*                                                                         *)
(* Floating-point values are modelled as exact rationals                   *)
(* [nan, num, den] (den > 0), with NaN a value of its own.                 *)
(***************************************************************************)
EXTENDS Integers, Sequences, FiniteSets, TLC

VARIABLES
    trace,        \* report: the posterior handed to get_change_point (tau: chains x draws)
    df,           \* report: the series the report is built for (its Date column)
    cp,           \* report: what get_change_point returned or raised
    calls,        \* report: how many times get_change_point ran on the trace
    report,       \* report: what build_change_point_report returned or raised
    log_returns,  \* fit: the argument of bayesian_change_point_model
    pc,           \* fit: position inside bayesian_change_point_model
    model,        \* fit: the pm.Model under construction (n, tau's support)
    draw,         \* fit: tau and the switched regime means of the latest draw
    exc,          \* fit: the exception propagating inside the try block, if any
    fit,          \* fit: what bayesian_change_point_model returned or raised
    prices,       \* preprocess: the caller's table and the call's arguments
    returns,      \* preprocess: what compute_log_returns returned or raised
    prices_df,    \* analysis: the price table (Date, Price) handed to the helpers
    events_df,    \* analysis: the events table (Date, Event) handed to the helpers
    args,         \* analysis: the remaining arguments of the helper that was called
    impact,       \* analysis: what quantify_impact returned
    matched_events, \* analysis: what associate_events returned or raised
    summary_df,   \* analysis: what summarize_change_points returned or raised
    detected_events_csv, \* api: the file at csv_path, if any
    response,     \* api: the response to GET /api/change_points
    output_path,  \* pipeline: the output_path argument of preprocess_brent_prices
    saved,        \* pipeline: the file the call wrote at output_path, if any
    processed     \* pipeline: what preprocess_brent_prices returned or raised

vars == <<trace, df, cp, calls, report, log_returns, pc, model, draw, exc, fit, prices, returns,
          prices_df, events_df, args, impact, matched_events, summary_df,
          detected_events_csv, response, output_path, saved, processed>>

reportVars == <<trace, df, cp, calls, report>>
fitVars == <<log_returns, pc, model, draw, exc, fit>>
prepVars == <<prices, returns>>
analysisVars == <<prices_df, events_df, args, impact, matched_events, summary_df>>
apiVars == <<detected_events_csv, response>>
pipeVars == <<output_path, saved, processed>>

-----------------------------------------------------------------------------
(* Bounds of the model.                                                    *)

\* most tau samples in a posterior (chains * draws)
MaxSamples == 3
\* most rows of the series a report is built for
MaxRows == 2
\* most samples of mu_1 / mu_2 handed to the report builder
MaxMuSamples == 2

\* tau samples: every valid index of the longest series, one below, one above
TauVals == -1 .. MaxRows
\* samples of the regime means, in units of the prior scale
MuVals == {-1, 0, 1}

\* chains x draws shapes of a posterior; draws = 0 is the empty posterior
Shapes == {s \in (1 .. MaxSamples) \X (0 .. MaxSamples) : s[1] * s[2] <= MaxSamples}

-----------------------------------------------------------------------------
(* Floating point as exact rationals.                                      *)

NaN == [nan |-> TRUE, num |-> 0, den |-> 1]

Rat(n, d) == [nan |-> FALSE, num |-> n, den |-> d]

Abs(x) == IF x < 0 THEN -x ELSE x

\* a - b
FSub(a, b) ==
    IF a.nan \/ b.nan THEN NaN
    ELSE Rat(a.num * b.den - b.num * a.den, a.den * b.den)

\* |a|
FAbs(a) == IF a.nan THEN NaN ELSE Rat(Abs(a.num), a.den)

\* a * k, k an integer
FScale(a, k) == IF a.nan THEN NaN ELSE Rat(a.num * k, a.den)

FIsZero(a) == ~a.nan /\ a.num = 0

RECURSIVE SumSeq(_)
SumSeq(s) == IF s = <<>> THEN 0 ELSE Head(s) + SumSeq(Tail(s))

-----------------------------------------------------------------------------
(* numpy helpers used by the report reduction.                             *)

\* ndarray.flatten() of a chains x draws array: row-major concatenation
RECURSIVE Flatten(_)
Flatten(m) == IF m = <<>> THEN <<>> ELSE Head(m) \o Flatten(Tail(m))

\* insert x into the ascending sequence s
RECURSIVE Insert(_, _)
Insert(x, s) ==
    IF s = <<>> THEN <<x>>
    ELSE IF x <= Head(s) THEN <<x>> \o s
    ELSE <<Head(s)>> \o Insert(x, Tail(s))

\* the samples left in the order they were drawn
Unsorted(s) == s

RECURSIVE Sort(_)
Sort(s) == IF s = <<>> THEN <<>> ELSE Insert(Head(s), Sort(Tail(s)))

\* np.median(a): the middle element of the sorted samples, or the mean of the
\* two middle ones; NaN for an empty array.
Median(a) ==
    LET s == Sort(a)
        n == Len(s)
    IN  IF n = 0 THEN NaN
        ELSE IF n % 2 = 1 THEN Rat(s[(n + 1) \div 2], 1)
        ELSE Rat(s[n \div 2] + s[n \div 2 + 1], 2)

\* int(x) of a finite float: truncation toward zero
IntTrunc(x) ==
    IF x.num >= 0 THEN x.num \div x.den ELSE -((-x.num) \div x.den)

\* round(x) of a finite float: to the nearest integer, ties to the even one
\* (Python's round and np.round agree on this)
Round(x) ==
    LET f == x.num \div x.den
        r == 2 * (x.num - f * x.den)
    IN  IF r < x.den THEN f
        ELSE IF r > x.den THEN f + 1
        ELSE IF f % 2 = 0 THEN f ELSE f + 1

-----------------------------------------------------------------------------
(* analysis_utils.get_change_point                                         *)

\* a result or input that does not exist (yet)
Unset == [kind |-> "unset"]

\* tau_samples = trace.posterior["tau"].values.flatten()
\* tau_map = int(np.median(tau_samples)); int(nan) raises ValueError
get_change_point(t) ==
    LET tau_samples == Flatten(t.posterior.tau)
        med == Median(tau_samples)
    IN  IF med.nan
        THEN [kind |-> "ValueError", tau_map |-> 0, tau_samples |-> <<>>]
        ELSE [kind |-> "ok", tau_map |-> IntTrunc(med), tau_samples |-> tau_samples]

\* the posterior had the median been taken in place on a view of the tau
\* samples: every chain is left sorted
PosteriorSortedInPlace(t) ==
    [posterior |->
        [tau |-> [c \in 1 .. Len(t.posterior.tau) |-> Sort(t.posterior.tau[c])]]]

\* the posterior once get_change_point is over: flatten() hands np.median a
\* copy of the samples and np.median does not overwrite its input (lines
\* 26-27), so nothing is written to the trace
PosteriorAfter(t) == t

-----------------------------------------------------------------------------
(* analysis_utils.build_change_point_report (exercised by                  *)
(* tests/test_modelling.py; its body follows the Report Builder algorithm  *)
(* of the specification, steps 1-7).                                       *)

\* a / b, b not zero
FDiv(a, b) ==
    IF a.nan \/ b.nan THEN NaN
    ELSE IF b.num < 0 THEN Rat(-(a.num * b.den), a.den * (-b.num))
    ELSE Rat(a.num * b.den, a.den * b.num)

\* np.mean of a non-empty array
Mean(a) == Rat(SumSeq(a), Len(a))

\* max(lo, min(x, hi))
Clamp(x, lo, hi) == IF x < lo THEN lo ELSE IF x > hi THEN hi ELSE x

\* number of positions of s holding v
Count(s, v) == Cardinality({i \in 1 .. Len(s) : s[i] = v})

\* whether Series.iloc[i] exists: positions -n .. n - 1 of a series of n rows
InBounds(col, i) == i \in -Len(col) .. Len(col) - 1

\* Series.iloc[i], i in bounds; a negative position counts from the end
Iloc(col, i) == IF i >= 0 THEN col[i + 1] ELSE col[Len(col) + i + 1]

\* PercentChange without the zero guard: the division is carried out (den = 0)
PercentChangeUnguarded(delta, mean_before) ==
    FScale(FDiv(delta, FAbs(mean_before)), 100)

\* step 5: delta / |mean_before| * 100, NaN when mean_before is exactly 0
PercentChange(delta, mean_before) ==
    IF FIsZero(mean_before) THEN NaN
    ELSE FScale(FDiv(delta, FAbs(mean_before)), 100)

\* ChangePointIndex with the upper clamp forgotten
ChangePointIndexNoUpperClamp(tau_samples, n) ==
    LET r == Round(Median(tau_samples)) IN IF r < 0 THEN 0 ELSE r

\* step 2: round(median(tau samples)), then clamp to [0, n - 1]
ChangePointIndex(tau_samples, n) == Clamp(Round(Median(tau_samples)), 0, n - 1)

\* Confidence counting against the estimate before clamping
ConfidenceOfUnclamped(tau_samples, idx) ==
    Rat(Count(tau_samples, Round(Median(tau_samples))), Len(tau_samples))

\* step 6: the fraction of tau samples equal to the clamped estimate
Confidence(tau_samples, idx) == Rat(Count(tau_samples, idx), Len(tau_samples))

\* build_change_point_report without step 1: an empty posterior yields index 0
build_change_point_report_unchecked(d, tau_samples, t) ==
    LET mean_before == Mean(t.posterior.mu_1)
        mean_after == Mean(t.posterior.mu_2)
        delta == FSub(mean_after, mean_before)
        idx == IF Len(tau_samples) = 0 THEN 0
               ELSE ChangePointIndex(tau_samples, Len(d.Date))
    IN  [kind |-> "ok",
         change_point_index |-> idx,
         change_point_date |-> Iloc(d.Date, idx),
         mean_before |-> mean_before,
         mean_after |-> mean_after,
         delta |-> delta,
         percent_change |-> PercentChange(delta, mean_before),
         confidence |-> Rat(Count(tau_samples, idx), Len(tau_samples))]

build_change_point_report(d, tau_samples, t) ==
    IF Len(tau_samples) = 0
    THEN [kind |-> "AnalysisError"]
    ELSE IF ~InBounds(d.Date, ChangePointIndex(tau_samples, Len(d.Date)))
    THEN [kind |-> "IndexError"]
    ELSE
        LET idx == ChangePointIndex(tau_samples, Len(d.Date))
            mean_before == Mean(t.posterior.mu_1)
            mean_after == Mean(t.posterior.mu_2)
            delta == FSub(mean_after, mean_before)
        IN  [kind |-> "ok",
             change_point_index |-> idx,
             change_point_date |-> Iloc(d.Date, idx),
             mean_before |-> mean_before,
             mean_after |-> mean_after,
             delta |-> delta,
             percent_change |-> PercentChange(delta, mean_before),
             confidence |-> Confidence(tau_samples, idx)]

-----------------------------------------------------------------------------
(* The report pipeline as a state machine.                                 *)

TauArrays == UNION {[1 .. s[1] -> [1 .. s[2] -> TauVals]] : s \in Shapes}

\* the flattened samples of mu_1 or mu_2 in a posterior of k draws
MuArrays(k) == [1 .. k -> MuVals]

\* a series of n rows; row i (0-based) is dated day i
Series(n) == [Date |-> [i \in 1 .. n |-> i - 1]]

ReportIdle ==
    trace = Unset /\ df = Unset /\ cp = Unset /\ calls = 0 /\ report = Unset

FitIdle ==
    /\ log_returns = Unset
    /\ pc = "idle"
    /\ model = Unset
    /\ draw = Unset
    /\ exc = Unset
    /\ fit = Unset

PrepIdle == prices = Unset /\ returns = Unset

AnalysisIdle ==
    /\ prices_df = Unset
    /\ events_df = Unset
    /\ args = Unset
    /\ impact = Unset
    /\ matched_events = Unset
    /\ summary_df = Unset

ApiIdle == detected_events_csv = Unset /\ response = Unset

PipelineIdle == output_path = Unset /\ saved = Unset /\ processed = Unset

InitReport ==
    /\ trace \in {[posterior |-> [tau |-> m]] : m \in TauArrays}
    /\ df \in {Series(n) : n \in 1 .. MaxRows}
    /\ cp = Unset
    /\ calls = 0
    /\ report = Unset
    /\ FitIdle
    /\ PrepIdle
    /\ AnalysisIdle
    /\ ApiIdle
    /\ PipelineIdle

\* tau_map, tau_samples = get_change_point(trace)
GetChangePoint ==
    /\ cp.kind = "unset"
    /\ cp' = get_change_point(trace)
    /\ trace' = PosteriorAfter(trace)
    /\ calls' = 1
    /\ UNCHANGED <<df, report, fitVars, prepVars, analysisVars, apiVars, pipeVars>>

\* report = build_change_point_report(df, tau_samples, trace), tau_samples
\* being the flattened samples get_change_point returned (the flattened tau
\* array itself when it raised) and the trace carrying the mu_1 and mu_2 samples
BuildChangePointReport ==
    /\ cp.kind # "unset"
    /\ report.kind = "unset"
    /\ \E k \in 1 .. MaxMuSamples :
       \E mu_1 \in MuArrays(k), mu_2 \in MuArrays(k) :
           report' = build_change_point_report(
                         df,
                         IF cp.kind = "ok" THEN cp.tau_samples
                         ELSE Flatten(trace.posterior.tau),
                         [posterior |-> [mu_1 |-> mu_1, mu_2 |-> mu_2]])
    /\ UNCHANGED <<trace, df, cp, calls, fitVars, prepVars, analysisVars, apiVars, pipeVars>>

NextReport == GetChangePoint \/ BuildChangePointReport

SpecReport == InitReport /\ [][NextReport]_vars

\* get_change_point called on a posterior alone, and then again
InitIdem ==
    /\ trace \in {[posterior |-> [tau |-> m]] : m \in TauArrays}
    /\ df = Unset
    /\ cp = Unset
    /\ calls = 0
    /\ report = Unset
    /\ FitIdle
    /\ PrepIdle
    /\ AnalysisIdle
    /\ ApiIdle
    /\ PipelineIdle

\* a second tau_map, tau_samples = get_change_point(trace) on the same trace
GetChangePointAgain ==
    /\ calls = 1
    /\ cp' = get_change_point(trace)
    /\ trace' = PosteriorAfter(trace)
    /\ calls' = 2
    /\ UNCHANGED <<df, report, fitVars, prepVars, analysisVars, apiVars, pipeVars>>

NextIdem == GetChangePoint \/ GetChangePointAgain

SpecIdem == InitIdem /\ [][NextIdem]_vars

-----------------------------------------------------------------------------
(* Properties of the report reduction (SpecReport).                        *)

\* the flattened tau samples of the posterior in hand
TauSamples == Flatten(trace.posterior.tau)

\* C1: a report is built for every non-empty collection of tau samples and
\* every series of n >= 1 rows, and its index lies in [0, n - 1]; it is 0 when the rounded median of the tau samples is below 0 and n - 1
\* when the rounded median is n or more.
C1_IndexClamped ==
    /\ (report.kind # "unset" /\ TauSamples # <<>>) => report.kind = "ok"
    /\ report.kind = "ok" =>
        LET n == Len(df.Date)
            r == Round(Median(TauSamples))
            idx == report.change_point_index
        IN  /\ idx \in 0 .. n - 1
            /\ r < 0 => idx = 0
            /\ r >= n => idx = n - 1
            /\ r \in 0 .. n - 1 => idx = r

\* a report built from samples whose rounded median lies past the last row
C1_Witness ==
    /\ report.kind = "ok"
    /\ Round(Median(TauSamples)) >= Len(df.Date)
    /\ report.change_point_index = Len(df.Date) - 1

\* C2: the point estimate get_change_point returns equals
\* round(median(tau samples)), half-integer medians included.
C2_EstimateIsRoundedMedian ==
    cp.kind = "ok" => cp.tau_map = Round(Median(cp.tau_samples))

\* C3: the report's confidence is (number of tau samples equal to the reported,
\* clamped index) / (number of tau samples), hence within [0, 1].
C3_Confidence ==
    report.kind = "ok" =>
        LET hits == {i \in 1 .. Len(TauSamples) :
                        TauSamples[i] = report.change_point_index}
            c == report.confidence
        IN  /\ ~c.nan
            /\ c.den = Len(TauSamples)
            /\ c.num = Cardinality(hits)
            /\ 0 <= c.num /\ c.num <= c.den

\* a report whose confidence is strictly between 0 and 1
C3_Witness ==
    /\ report.kind = "ok"
    /\ 0 < report.confidence.num
    /\ report.confidence.num < report.confidence.den

\* C4: with zero tau samples no report is built and no index is produced: the
\* report builder ends in its validation error (AnalysisError) and
\* get_change_point raises instead of returning an estimate.
C4_EmptyPosteriorFails ==
    TauSamples = <<>> =>
        /\ report.kind \in {"unset", "AnalysisError"}
        /\ cp.kind \in {"unset", "ValueError"}

\* the report builder has been called on an empty posterior and has failed
C4_Witness == TauSamples = <<>> /\ report.kind = "AnalysisError"

\* C5: percent_change is NaN exactly when mean_before is 0 and otherwise is
\* delta / |mean_before| * 100 with delta = mean_after - mean_before; a zero
\* mean_before never makes the build fail.
C5_PercentChange ==
    /\ report.kind \in {"unset", "AnalysisError", "ok"}
    /\ report.kind = "ok" =>
        LET mb == report.mean_before
            ma == report.mean_after
            d == report.delta
            p == report.percent_change
        IN  /\ p.nan <=> mb.num = 0
            /\ d.num * (ma.den * mb.den) = d.den * (ma.num * mb.den - mb.num * ma.den)
            /\ ~p.nan =>
                   /\ p.den > 0
                   /\ p.num * (ma.den * Abs(mb.num))
                          = p.den * 100 * (ma.num * mb.den - mb.num * ma.den)

\* a report built with mean_before exactly 0 and a non-zero mean_after
C5_Witness ==
    /\ report.kind = "ok"
    /\ report.mean_before.num = 0
    /\ report.mean_after.num # 0
    /\ report.percent_change.nan

-----------------------------------------------------------------------------
(* bayesian_cp_model.bayesian_change_point_model                           *)

\* the shortest series the model accepts
MinLength == 10
\* longest one-dimensional input of the model
MaxLen == 11
\* the draws argument of the call
FitDraws == 2

\* an element of the input: some finite number, or NaN
Elems == {"num", "nan"}

\* the Python value None
PyNone == [kind |-> "None"]

\* np.asarray(log_returns): ndim and the elements in order; len() of a
\* one-dimensional array is the number of elements
Array(ndim, data) == [kind |-> "array", ndim |-> ndim, data |-> data]

FitInputs ==
    {PyNone}
        \cup {Array(0, <<e>>) : e \in Elems}
        \cup {Array(1, d) : d \in UNION {[1 .. k -> Elems] : k \in 0 .. MaxLen}}
        \cup {Array(2, d) : d \in UNION {[1 .. k -> Elems] : k \in 1 .. MaxLen}}

\* what the model and the sampler can raise inside the try block
Exceptions == {"SamplingError", "FloatingPointError"}

\* Input validation without the NaN check
ValidationFailureNoNaNCheck(lr) ==
    IF lr.kind = "None" THEN "log_returns cannot be None"
    ELSE IF lr.ndim # 1 THEN "log_returns must be a 1D array"
    ELSE IF Len(lr.data) < MinLength
        THEN "Time series too short for change point detection"
    ELSE ""

\* Input validation: the message of the ValueError raised, "" when none is
ValidationFailure(lr) ==
    IF lr.kind = "None" THEN "log_returns cannot be None"
    ELSE IF lr.ndim # 1 THEN "log_returns must be a 1D array"
    ELSE IF Len(lr.data) < MinLength
        THEN "Time series too short for change point detection"
    ELSE IF \E i \in 1 .. Len(lr.data) : lr.data[i] = "nan"
        THEN "log_returns contains NaN values"
    ELSE ""

\* the switch with a strict comparison
SwitchStrict(tau, idx) == IF tau > idx THEN "mu1" ELSE "mu2"

\* pm.math.switch(tau >= idx, mu1, mu2) at one position
Switch(tau, idx) == IF tau >= idx THEN "mu1" ELSE "mu2"

\* mu over idx = np.arange(n); position i of the series is element i + 1
RegimeMeans(tau, n) == [i \in 1 .. n |-> Switch(tau, i - 1)]

\* tau = pm.DiscreteUniform("tau", lower=0, upper=n - 1)
PmModel(n) == [kind |-> "model", n |-> n, tau_lower |-> 0, tau_upper |-> n - 1]

\* the handler that lets the trace through
HandlerSwallows(e, tr) == [kind |-> "ok", trace |-> tr, context |-> e]

\* except Exception as e: raise RuntimeError(f"Bayesian model sampling failed: {e}")
Handler(e, tr) ==
    [kind |-> "RuntimeError",
     message |-> <<"Bayesian model sampling failed: ", e>>,
     context |-> e]

\* the checks of lines 46-58 had they stood inside the try block of line 62:
\* their ValueError would reach the except clause of lines 92-93
ValidationRaiseInsideTry(message) ==
    [kind |-> "RuntimeError",
     message |-> <<"Bayesian model sampling failed: ", message>>,
     context |-> "ValueError"]

\* lines 46-58: raise ValueError(message); the checks stand before the try
\* block of line 62, so the error leaves the function as it is
ValidationRaise(message) == [kind |-> "ValueError", message |-> message]

InitFit ==
    /\ log_returns \in FitInputs
    /\ pc = "start"
    /\ model = Unset
    /\ draw = Unset
    /\ exc = Unset
    /\ fit = Unset
    /\ ReportIdle
    /\ PrepIdle
    /\ AnalysisIdle
    /\ ApiIdle
    /\ PipelineIdle

\* lines 46-60: the four checks, in order, before the try block
Validate ==
    /\ pc = "start"
    /\ IF ValidationFailure(log_returns) # ""
       THEN /\ fit' = ValidationRaise(ValidationFailure(log_returns))
            /\ pc' = "raised"
       ELSE /\ pc' = "validated"
            /\ fit' = fit
    /\ UNCHANGED <<log_returns, model, draw, exc, reportVars, prepVars,
                 analysisVars, apiVars, pipeVars>>

\* lines 63-80: the model is declared
BuildModel ==
    /\ pc = "validated"
    /\ model' = PmModel(Len(log_returns.data))
    /\ pc' = "built"
    /\ UNCHANGED <<log_returns, draw, exc, fit, reportVars, prepVars,
                 analysisVars, apiVars, pipeVars>>

\* lines 63-80: declaring the model raises
BuildModelRaises ==
    /\ pc = "validated"
    /\ \E e \in Exceptions : exc' = [kind |-> "raised", type |-> e]
    /\ pc' = "except"
    /\ UNCHANGED <<log_returns, model, draw, fit, reportVars, prepVars,
                 analysisVars, apiVars, pipeVars>>

\* the tau samples drawn so far
Drawn == IF draw = Unset THEN <<>> ELSE draw.samples

\* lines 83-90: one draw of pm.sample; tau is drawn within its support and
\* the regime means are switched on it
Draw ==
    /\ pc = "built"
    /\ Len(Drawn) < FitDraws
    /\ \E tau \in model.tau_lower .. model.tau_upper :
           draw' = [kind |-> "draw",
                    tau |-> tau,
                    mu |-> RegimeMeans(tau, model.n),
                    samples |-> Append(Drawn, tau)]
    /\ UNCHANGED <<log_returns, pc, model, exc, fit, reportVars, prepVars,
                 analysisVars, apiVars, pipeVars>>

\* lines 83-90: pm.sample raises, before or between draws
SampleRaises ==
    /\ pc = "built"
    /\ \E e \in Exceptions : exc' = [kind |-> "raised", type |-> e]
    /\ pc' = "except"
    /\ UNCHANGED <<log_returns, model, draw, fit, reportVars, prepVars,
                 analysisVars, apiVars, pipeVars>>

\* lines 92-93: the except clause
Except ==
    /\ pc = "except"
    /\ fit' = Handler(exc.type, Drawn)
    /\ pc' = "raised"
    /\ UNCHANGED <<log_returns, model, draw, exc, reportVars, prepVars,
                 analysisVars, apiVars, pipeVars>>

\* line 95: return trace, model
Return ==
    /\ pc = "built"
    /\ Len(Drawn) = FitDraws
    /\ fit' = [kind |-> "ok",
               trace |-> [posterior |-> [tau |-> <<draw.samples>>]],
               model |-> model]
    /\ pc' = "returned"
    /\ UNCHANGED <<log_returns, model, draw, exc, reportVars, prepVars,
                 analysisVars, apiVars, pipeVars>>

NextFit ==
    \/ Validate
    \/ BuildModel
    \/ BuildModelRaises
    \/ Draw
    \/ SampleRaises
    \/ Except
    \/ Return

SpecFit == InitFit /\ [][NextFit]_vars

-----------------------------------------------------------------------------
(* Properties of the change-point model (SpecFit).                         *)

\* C6: in a draw over a series of length n, tau lies in [0, n - 1] and the
\* regime mean at position i is mu1 if tau >= i and mu2 otherwise: the
\* pre-change regime is exactly the positions 0 .. tau, position 0 is always
\* in it, and the post-change regime is empty exactly when tau = n - 1.
C6_RegimeBoundary ==
    draw.kind = "draw" =>
        LET n == Len(log_returns.data)
            pre == {i \in 0 .. n - 1 : draw.mu[i + 1] = "mu1"}
            post == {i \in 0 .. n - 1 : draw.mu[i + 1] = "mu2"}
        IN  /\ Len(draw.mu) = n
            /\ draw.tau \in 0 .. n - 1
            /\ pre = 0 .. draw.tau
            /\ post = (draw.tau + 1) .. (n - 1)
            /\ 0 \in pre
            /\ post = {} <=> draw.tau = n - 1

\* a draw with tau = 0: position 0 is pre-change, position 1 post-change
C6_Witness ==
    /\ draw.kind = "draw"
    /\ draw.tau = 0
    /\ draw.mu[1] = "mu1"
    /\ draw.mu[2] = "mu2"

\* the input is None, not one-dimensional, shorter than 10, or holds a NaN
InvalidFitInput ==
    \/ log_returns.kind = "None"
    \/ /\ log_returns.kind = "array"
       /\ \/ log_returns.ndim # 1
          \/ Len(log_returns.data) < 10
          \/ "nan" \in {log_returns.data[i] : i \in 1 .. Len(log_returns.data)}

\* C7: once validation has run, an input that is not one-dimensional, has
\* fewer than 10 elements or holds a NaN has ended the call in a ValueError
\* with no model built and nothing sampled; every one-dimensional NaN-free
\* input of length >= 10 has passed validation.
C7_Validation ==
    pc # "start" =>
        IF InvalidFitInput
        THEN /\ pc = "raised"
             /\ fit.kind = "ValueError"
             /\ model = Unset
             /\ draw = Unset
        ELSE fit.kind # "ValueError"

\* a one-dimensional input of sufficient length rejected for a NaN
C7_Witness ==
    /\ pc = "raised"
    /\ fit.kind = "ValueError"
    /\ log_returns.kind = "array"
    /\ log_returns.ndim = 1
    /\ Len(log_returns.data) >= 10
    /\ \E i \in 1 .. Len(log_returns.data) : log_returns.data[i] = "nan"

\* C8: once building or sampling has raised, the call never returns a
\* posterior: it ends in a RuntimeError carrying the exception raised; a
\* posterior is returned only when all draws completed and nothing was raised.
C8_FailureSurfaces ==
    /\ exc.kind = "raised" => fit.kind \in {"unset", "RuntimeError"}
    /\ (exc.kind = "raised" /\ pc = "raised") =>
           /\ fit.kind = "RuntimeError"
           /\ fit.context = exc.type
           /\ fit.message[2] = exc.type
           /\ "trace" \notin DOMAIN fit
    /\ fit.kind = "RuntimeError" => exc.kind = "raised"
    /\ fit.kind = "ok" =>
           /\ exc = Unset
           /\ pc = "returned"
           /\ Len(fit.trace.posterior.tau[1]) = FitDraws

\* sampling raised after a draw had been made, and the call ended in the error
C8_Witness ==
    /\ pc = "raised"
    /\ fit.kind = "RuntimeError"
    /\ draw.kind = "draw"

-----------------------------------------------------------------------------
(* preprocess.validate_price_dataframe, preprocess.compute_log_returns     *)

\* most rows of a price table
MaxPriceRows == 3

\* prices: NaN, a negative one, zero and positive ones
PriceVals == {NaN, Rat(-1, 1), Rat(0, 1), Rat(1, 1), Rat(2, 1), Rat(4, 1)}

\* a DataFrame: its columns, its rows (dated day 0, 1, ...), the Price
\* column's values and whether the Price column has a numeric dtype
DataFrame(cols, n, price, numeric) ==
    [kind |-> "DataFrame",
     columns |-> cols,
     nrows |-> n,
     Date |-> IF "Date" \in cols THEN [i \in 1 .. n |-> i - 1] ELSE <<>>,
     Price |-> IF "Price" \in cols THEN price ELSE <<>>,
     numeric |-> numeric]

DataFrames ==
    UNION {
        {DataFrame(cols, n, price, numeric) :
            price \in IF "Price" \in cols THEN [1 .. n -> PriceVals] ELSE {<<>>},
            numeric \in IF "Price" \in cols THEN BOOLEAN ELSE {TRUE}} :
        cols \in SUBSET {"Date", "Price"}, n \in 0 .. MaxPriceRows}

\* df.empty: no rows or no columns
IsEmpty(d) == d.nrows = 0 \/ d.columns = {}

\* (df[price_col] <= 0).any(); NaN <= 0 is False
AnyNonPositive(price) ==
    \E i \in 1 .. Len(price) : ~price[i].nan /\ price[i].num <= 0

\* an argument that is no DataFrame: a plain list of prices
PyList == [kind |-> "list"]

\* the type of the exception validation raises when it raises: its own
\* PreprocessingError, or the AttributeError of df.empty on a list (line 27)
ValidationErrorType(d) ==
    IF d.kind = "list" THEN "AttributeError" ELSE "PreprocessingError"

\* the message of the exception raised, "" when validation passes
validate_price_dataframe(d, price_col) ==
    IF d.kind = "None" THEN "Input dataframe is empty."
    ELSE IF d.kind = "list" THEN "'list' object has no attribute 'empty'"
    ELSE IF IsEmpty(d) THEN "Input dataframe is empty."
    ELSE IF price_col \notin d.columns THEN "Missing required column"
    ELSE IF ~d.numeric THEN "Column must be numeric."
    ELSE IF AnyNonPositive(d.Price)
        THEN "Price values must be positive to compute log returns."
    ELSE ""

\* Series.shift(-1): every value moves up one row, the last row gets NaN
ShiftBack(s) == [i \in 1 .. Len(s) |-> IF i = Len(s) THEN NaN ELSE s[i + 1]]

\* Series.shift(1): every value moves down one row, the first row gets NaN
Shift(s) == [i \in 1 .. Len(s) |-> IF i = 1 THEN NaN ELSE s[i - 1]]

RECURSIVE GCD(_, _)
GCD(a, b) == IF b = 0 THEN a ELSE GCD(b, a % b)

\* np.log(x) for x > 0, kept exact as ln(num / den) in lowest terms, and NaN
\* for NaN; validation leaves no price <= 0, so no other ratio reaches it
Log(x) ==
    IF x.nan \/ x.den = 0 \/ x.num <= 0 THEN NaN
    ELSE LET g == GCD(x.num, x.den) IN Rat(x.num \div g, x.den \div g)

\* np.log(df[price_col] / df[price_col].shift(1))
LogReturnColumn(price) ==
    [i \in 1 .. Len(price) |-> Log(FDiv(price[i], Shift(price)[i]))]

\* the elements of s at the positions where keep holds, in order
RECURSIVE Pick(_, _)
Pick(s, keep) ==
    IF s = <<>> THEN <<>>
    ELSE (IF Head(keep) THEN <<Head(s)>> ELSE <<>>) \o Pick(Tail(s), Tail(keep))

\* an except clause that catches PreprocessingError only: any other
\* exception leaves the function as it was raised
ExceptPreprocessingErrorOnly(type, message) ==
    [kind |-> type, message |-> message]

\* lines 77-79: except Exception as e: raise PreprocessingError(e)
ExceptException(type, message) ==
    [kind |-> "PreprocessingError", message |-> message]

\* lines 65-79: validate, copy, add the output column, drop the rows whose
\* log return is NaN and renumber; any exception becomes a PreprocessingError
compute_log_returns(d, dropna) ==
    IF validate_price_dataframe(d, "Price") # ""
    THEN ExceptException(ValidationErrorType(d),
                         validate_price_dataframe(d, "Price"))
    ELSE
        LET lr == LogReturnColumn(d.Price)
            keep == [i \in 1 .. d.nrows |-> ~dropna \/ ~lr[i].nan]
        IN  [kind |-> "ok",
             table |-> [columns |-> d.columns \cup {"LogReturn"},
                        Date |-> IF "Date" \in d.columns
                                 THEN Pick(d.Date, keep) ELSE <<>>,
                        Price |-> Pick(d.Price, keep),
                        LogReturn |-> Pick(lr, keep)]]

\* the table the local name df is bound to when line 69 assigns the output
\* column, had line 68 not rebound it: the caller's own table
LocalTableNoCopy == "caller"

\* line 68: df = df.copy() rebinds the local name to a new table
LocalTable == "copy"

\* the caller's table once the call is over: validation only reads it, and
\* the column assignment of line 69 writes to the table df is bound to (the
\* later dropna and reset_index build new tables)
CallersTableAfter(d) ==
    IF validate_price_dataframe(d, "Price") # "" \/ LocalTable # "caller"
    THEN d
    ELSE [kind |-> d.kind,
          columns |-> d.columns \cup {"LogReturn"},
          nrows |-> d.nrows,
          Date |-> d.Date,
          Price |-> d.Price,
          numeric |-> d.numeric,
          LogReturn |-> LogReturnColumn(d.Price)]

InitPrep ==
    /\ prices \in {[kind |-> "call", df |-> d, dropna |-> b] :
                      d \in DataFrames \cup {PyNone, PyList}, b \in BOOLEAN}
    /\ returns = Unset
    /\ ReportIdle
    /\ FitIdle
    /\ AnalysisIdle
    /\ ApiIdle
    /\ PipelineIdle

\* result = compute_log_returns(df, dropna=...); the caller keeps its own
\* reference to the table it passed
ComputeLogReturns ==
    /\ returns.kind = "unset"
    /\ returns' = compute_log_returns(prices.df, prices.dropna)
    /\ prices' = [prices EXCEPT !.df = CallersTableAfter(prices.df)]
    /\ UNCHANGED <<reportVars, fitVars, analysisVars, apiVars, pipeVars>>

NextPrep == ComputeLogReturns

SpecPrep == InitPrep /\ [][NextPrep]_vars

-----------------------------------------------------------------------------
(* Properties of the preprocessor (SpecPrep).                              *)

\* the caller's table is a price series: Date and Price columns, numeric,
\* every price a number > 0
ValidSeries ==
    /\ prices.df.kind = "DataFrame"
    /\ prices.df.columns = {"Date", "Price"}
    /\ prices.df.numeric
    /\ \A i \in 1 .. prices.df.nrows :
           ~prices.df.Price[i].nan /\ prices.df.Price[i].num > 0

\* C9: for a valid price series of n >= 2 rows and dropna = True the call
\* returns n - 1 rows in input order; output row k carries the Date and Price
\* of input row k + 1 and LogReturn = ln(Price[k + 1] / Price[k]).
C9_LogReturns ==
    (returns.kind # "unset" /\ ValidSeries /\ prices.dropna
        /\ prices.df.nrows >= 2) =>
        /\ returns.kind = "ok"
        /\ LET in == prices.df
               t == returns.table
               n == in.nrows
           IN  /\ Len(t.Date) = n - 1
               /\ Len(t.Price) = n - 1
               /\ Len(t.LogReturn) = n - 1
               /\ \A k \in 1 .. n - 1 :
                      /\ t.Date[k] = in.Date[k + 1]
                      /\ t.Price[k] = in.Price[k + 1]
                      /\ ~t.LogReturn[k].nan
                      /\ t.LogReturn[k].num * in.Price[k].num
                             = t.LogReturn[k].den * in.Price[k + 1].num

\* returns computed for a valid series of three rows with distinct ratios
C9_Witness ==
    /\ returns.kind = "ok"
    /\ ValidSeries
    /\ prices.dropna
    /\ prices.df.nrows = 3
    /\ Len(returns.table.LogReturn) = 2
    /\ returns.table.LogReturn[1] # returns.table.LogReturn[2]

\* C10: the call fails with PreprocessingError, returning no table, if the
\* series is empty, if any Price is <= 0, if the Price column is absent, or if
\* the Date column is absent.
C10_InvalidInputFails ==
    (/\ returns.kind # "unset"
     /\ \/ prices.df.kind = "None"
        \/ /\ prices.df.kind = "DataFrame"
           /\ \/ prices.df.nrows = 0
              \/ "Price" \notin prices.df.columns
              \/ "Date" \notin prices.df.columns
              \/ \E i \in 1 .. Len(prices.df.Price) :
                     ~prices.df.Price[i].nan /\ prices.df.Price[i].num <= 0)
        => returns.kind = "PreprocessingError"

\* C11: on a price series of one row the call fails with a validation error
\* (too short for returns); it never returns an empty table of returns.
C11_SingleRowFails ==
    (returns.kind # "unset" /\ ValidSeries /\ prices.df.nrows = 1) =>
        returns.kind = "PreprocessingError"

\* C12: the call never changes the table it was given: whether it returns or
\* raises, the caller's table keeps its rows and its columns and gains no
\* LogReturn column.
C12_InputUntouched == [][prices' = prices]_vars

\* a call that returned a table with a LogReturn column, the caller's table
\* still being the two-column series of three rows it passed
C12_Witness ==
    /\ returns.kind = "ok"
    /\ "LogReturn" \in returns.table.columns
    /\ ValidSeries
    /\ prices.df.nrows = 3
    /\ "LogReturn" \notin prices.df.columns

-----------------------------------------------------------------------------
(* analysis_utils.quantify_impact                                          *)

\* most rows of the price table handed to the analysis helpers
MaxPoints == 3

\* prices of a validated series: numbers > 0
ImpactPrices == {Rat(1, 1), Rat(2, 1), Rat(4, 1)}

\* change-point positions: every position of the longest table, one below
\* (counted from the end by iloc) and one past the end
TauArgs == -1 .. MaxPoints

\* a + b
FAdd(a, b) ==
    IF a.nan \/ b.nan THEN NaN
    ELSE Rat(a.num * b.den + b.num * a.den, a.den * b.den)

RECURSIVE FSum(_)
FSum(s) == IF s = <<>> THEN Rat(0, 1) ELSE FAdd(Head(s), FSum(Tail(s)))

\* Series.mean() that answers 0 for a series with no value
SeriesMeanEmptyZero(s) ==
    LET vals == Pick(s, [i \in 1 .. Len(s) |-> ~s[i].nan])
    IN  IF vals = <<>> THEN Rat(0, 1)
        ELSE FDiv(FSum(vals), Rat(Len(vals), 1))

\* Series.mean(): the mean of the values that are not NaN (skipna), and NaN
\* when there is none, as for an empty slice
SeriesMean(s) ==
    LET vals == Pick(s, [i \in 1 .. Len(s) |-> ~s[i].nan])
    IN  IF vals = <<>> THEN NaN
        ELSE FDiv(FSum(vals), Rat(Len(vals), 1))

\* where a slice bound i falls in a series of n rows: a negative bound counts
\* from the end, and bounds are clipped to 0 .. n
SliceBound(n, i) ==
    IF i < 0 THEN (IF n + i < 0 THEN 0 ELSE n + i)
    ELSE IF i > n THEN n ELSE i

\* Series.iloc[:tau]
IlocUpTo(col, tau) == SubSeq(col, 1, SliceBound(Len(col), tau))

\* a later slice that leaves row tau out: Series.iloc[tau + 1:]
IlocAfter(col, tau) == SubSeq(col, SliceBound(Len(col), tau + 1) + 1, Len(col))

\* Series.iloc[tau:]
IlocFrom(col, tau) == SubSeq(col, SliceBound(Len(col), tau) + 1, Len(col))

\* lines 108-118
quantify_impact(p, tau) ==
    LET before_mean == SeriesMean(IlocUpTo(p.Price, tau))
        after_mean == SeriesMean(IlocFrom(p.Price, tau))
        change == FSub(after_mean, before_mean)
        percent_change == FScale(FDiv(change, before_mean), 100)
    IN  [kind |-> "ok",
         before_mean |-> before_mean,
         after_mean |-> after_mean,
         change |-> change,
         percent_change |-> percent_change]

\* price tables of n rows; row i (0-based) is dated day i
PriceTables ==
    UNION {{[Date |-> [i \in 1 .. n |-> i - 1], Price |-> pr] :
               pr \in [1 .. n -> ImpactPrices]} : n \in 0 .. MaxPoints}

InitImpact ==
    /\ prices_df \in PriceTables
    /\ events_df = Unset
    /\ args = Unset
    /\ impact = Unset
    /\ matched_events = Unset
    /\ summary_df = Unset
    /\ ReportIdle
    /\ FitIdle
    /\ PrepIdle
    /\ ApiIdle
    /\ PipelineIdle

\* impact = quantify_impact(prices_df, tau)
QuantifyImpact ==
    /\ impact.kind = "unset"
    /\ \E tau \in TauArgs :
           /\ args' = [tau |-> tau]
           /\ impact' = quantify_impact(prices_df, tau)
    /\ UNCHANGED <<prices_df, events_df, matched_events, summary_df,
                   reportVars, fitVars, prepVars, apiVars, pipeVars>>

NextImpact == QuantifyImpact

SpecImpact == InitImpact /\ [][NextImpact]_vars

-----------------------------------------------------------------------------
(* Properties of quantify_impact (SpecImpact).                             *)

\* the sum of the numerators of the prices at 1-based positions lo .. hi
\* (the prices of the model are whole numbers)
RECURSIVE PriceTotal(_, _, _)
PriceTotal(price, lo, hi) ==
    IF lo > hi THEN 0 ELSE price[lo].num + PriceTotal(price, lo + 1, hi)

\* x is the number t / k
IsRatio(x, t, k) == ~x.nan /\ x.den # 0 /\ x.num * k = t * x.den

\* C13: for 0 < tau < n, before_mean is the mean of the prices at indices
\* [0, tau), after_mean the mean of those at [tau, n - 1] (row tau belongs to
\* the after slice), change = after_mean - before_mean and
\* percent_change = change / before_mean * 100.
C13_Impact ==
    (impact.kind # "unset" /\ args.tau > 0 /\ args.tau < Len(prices_df.Price)) =>
        LET n == Len(prices_df.Price)
            tau == args.tau
            before == PriceTotal(prices_df.Price, 1, tau)
            after == PriceTotal(prices_df.Price, tau + 1, n)
            \* after / (n - tau) - before / tau, over the common denominator
            diff == after * tau - before * (n - tau)
        IN  /\ impact.kind = "ok"
            /\ IsRatio(impact.before_mean, before, tau)
            /\ IsRatio(impact.after_mean, after, n - tau)
            /\ IsRatio(impact.change, diff, tau * (n - tau))
            /\ IsRatio(impact.percent_change, diff * 100, before * (n - tau))

\* tau = 1 of three rows 1, 4, 4: the row at tau counts for the after mean
C13_Witness ==
    /\ impact.kind = "ok"
    /\ args.tau = 1
    /\ prices_df.Price = <<Rat(1, 1), Rat(4, 1), Rat(4, 1)>>
    /\ IsRatio(impact.after_mean, 4, 1)
    /\ IsRatio(impact.percent_change, 300, 1)

\* C14: with tau = 0 the call does not raise: before_mean is NaN, after_mean
\* is the mean of the whole series, change and percent_change are NaN.
C14_TauZero ==
    (impact.kind # "unset" /\ args.tau = 0 /\ Len(prices_df.Price) > 0) =>
        /\ impact.kind = "ok"
        /\ impact.before_mean.nan
        /\ IsRatio(impact.after_mean,
                   PriceTotal(prices_df.Price, 1, Len(prices_df.Price)),
                   Len(prices_df.Price))
        /\ impact.change.nan
        /\ impact.percent_change.nan

\* tau = 0 on three rows whose mean is 7/3
C14_Witness ==
    /\ impact.kind = "ok"
    /\ args.tau = 0
    /\ prices_df.Price = <<Rat(1, 1), Rat(2, 1), Rat(4, 1)>>
    /\ impact.before_mean.nan
    /\ IsRatio(impact.after_mean, 7, 3)

-----------------------------------------------------------------------------
(* analysis_utils.associate_events and summarize_change_points             *)

\* most rows of the events table
MaxEvents == 2
\* most change points handed to summarize_change_points
MaxTaus == 2
\* window_days when the caller does not pass it
DefaultWindowDays == 5

\* the window_days values associate_events is called with
WindowDays == {0, DefaultWindowDays, DefaultWindowDays + 1}
\* event dates, in days: the date of the first price row, the last day of its
\* default window, and the day after that (the first day of the second row's)
EventDays == {0, DefaultWindowDays, DefaultWindowDays + 1}
\* event labels
Labels == {"A", "B"}

\* the date test of line 85 with the bounds left out
InWindowOpen(d, cp_date, window_days) ==
    d > cp_date - window_days /\ d < cp_date + window_days

\* line 85: (Date >= start_date) & (Date <= end_date), with
\* start_date = cp_date - window_days and end_date = cp_date + window_days
InWindow(d, cp_date, window_days) ==
    d >= cp_date - window_days /\ d <= cp_date + window_days

\* lines 81-86; iloc raises IndexError for a position outside -n .. n - 1
associate_events(p, e, tau, window_days) ==
    IF ~InBounds(p.Date, tau) THEN [kind |-> "IndexError"]
    ELSE
        LET cp_date == Iloc(p.Date, tau)
            keep == [i \in 1 .. Len(e.Date) |->
                        InWindow(e.Date[i], cp_date, window_days)]
        IN  [kind |-> "ok",
             Date |-> Pick(e.Date, keep),
             Event |-> Pick(e.Event, keep)]

\* ", ".join(labels), labels not empty
RECURSIVE Join(_)
Join(labels) ==
    IF Len(labels) = 1 THEN Head(labels)
    ELSE Head(labels) \o ", " \o Join(Tail(labels))

\* the AssociatedEvents cell with the matched labels joined last to first
AssociatedEventsReversed(matched) ==
    IF matched.Event = <<>> THEN "None"
    ELSE Join([i \in 1 .. Len(matched.Event) |->
                  matched.Event[Len(matched.Event) + 1 - i]])

\* line 155
AssociatedEvents(matched) ==
    IF matched.Event = <<>> THEN "None" ELSE Join(matched.Event)

\* lines 148-160: the record of one change point, tau in iloc's range
Record(p, e, tau) ==
    LET impact_ == quantify_impact(p, tau)
    IN  [ChangePointIndex |-> tau,
         ChangePointDate |-> Iloc(p.Date, tau),
         AssociatedEvents |->
             AssociatedEvents(associate_events(p, e, tau, DefaultWindowDays)),
         PriceBefore |-> impact_.before_mean,
         PriceAfter |-> impact_.after_mean,
         Change |-> impact_.change,
         PercentChange |-> impact_.percent_change]

\* lines 146-161: one record per element of tau_list, in order
Records(p, e, tau_list) ==
    [k \in 1 .. Len(tau_list) |-> Record(p, e, tau_list[k])]

\* s without the later repetitions of its elements
RECURSIVE Unique(_)
Unique(s) ==
    IF s = <<>> THEN <<>>
    ELSE LET front == SubSeq(s, 1, Len(s) - 1)
             last == s[Len(s)]
         IN  IF \E i \in 1 .. Len(front) : front[i] = last
             THEN Unique(front)
             ELSE Unique(front) \o <<last>>

\* summarize_change_points looping over the distinct change points only
summarize_change_points_unique(p, e, tau_list) ==
    IF \E k \in 1 .. Len(tau_list) : ~InBounds(p.Date, tau_list[k])
    THEN [kind |-> "IndexError"]
    ELSE [kind |-> "ok", rows |-> Records(p, e, Unique(tau_list))]

\* lines 146-164: the first tau outside iloc's range raises IndexError at
\* line 148 and ends the call; otherwise the records become the table
summarize_change_points(p, e, tau_list) ==
    IF \E k \in 1 .. Len(tau_list) : ~InBounds(p.Date, tau_list[k])
    THEN [kind |-> "IndexError"]
    ELSE [kind |-> "ok", rows |-> Records(p, e, tau_list)]

\* price tables of n rows, 11 days apart (so that the default windows of two
\* rows do not meet), row i (1-based) priced i * i
DatedTables ==
    {[Date |-> [i \in 1 .. n |-> 11 * (i - 1)],
      Price |-> [i \in 1 .. n |-> Rat(i * i, 1)]] : n \in 0 .. MaxPoints}

EventTables ==
    UNION {{[Date |-> d, Event |-> l] :
               d \in [1 .. m -> EventDays], l \in [1 .. m -> Labels]} :
           m \in 0 .. MaxEvents}

TauLists == UNION {[1 .. m -> TauArgs] : m \in 0 .. MaxTaus}

InitSummary ==
    /\ prices_df \in DatedTables
    /\ events_df \in EventTables
    /\ args = Unset
    /\ impact = Unset
    /\ matched_events = Unset
    /\ summary_df = Unset
    /\ ReportIdle
    /\ FitIdle
    /\ PrepIdle
    /\ ApiIdle
    /\ PipelineIdle

\* matched_events = associate_events(prices_df, events_df, tau, window_days)
AssociateEvents ==
    /\ matched_events.kind = "unset"
    /\ summary_df.kind = "unset"
    /\ \E tau \in TauArgs, window_days \in WindowDays :
           /\ args' = [tau |-> tau, window_days |-> window_days]
           /\ matched_events' =
                  associate_events(prices_df, events_df, tau, window_days)
    /\ UNCHANGED <<prices_df, events_df, impact, summary_df,
                   reportVars, fitVars, prepVars, apiVars, pipeVars>>

\* summary_df = summarize_change_points(prices_df, events_df, tau_list)
SummarizeChangePoints ==
    /\ matched_events.kind = "unset"
    /\ summary_df.kind = "unset"
    /\ \E tau_list \in TauLists :
           /\ args' = [tau_list |-> tau_list]
           /\ summary_df' =
                  summarize_change_points(prices_df, events_df, tau_list)
    /\ UNCHANGED <<prices_df, events_df, impact, matched_events,
                   reportVars, fitVars, prepVars, apiVars, pipeVars>>

NextSummary == AssociateEvents \/ SummarizeChangePoints

SpecSummary == InitSummary /\ [][NextSummary]_vars

-----------------------------------------------------------------------------
(* Properties of associate_events and summarize_change_points              *)
(* (SpecSummary).                                                          *)

\* the positions of the events dated within w days of day c
Within(c, w) ==
    {i \in 1 .. Len(events_df.Date) :
        c - w <= events_df.Date[i] /\ events_df.Date[i] <= c + w}

\* C15: for a position tau of the price table, associate_events returns
\* exactly the events dated d with cp_date - window_days <= d <=
\* cp_date + window_days, cp_date being the Date at tau, in the order of the
\* events table: an event on the boundary is included, one a day further is
\* not, and an empty result is returned without error.
C15_Window ==
    (matched_events.kind # "unset" /\ args.tau >= 0
        /\ args.tau < Len(prices_df.Date)) =>
        LET in == Within(prices_df.Date[args.tau + 1], args.window_days)
        IN  /\ matched_events.kind = "ok"
            /\ Len(matched_events.Date) = Cardinality(in)
            /\ Len(matched_events.Event) = Cardinality(in)
            /\ \A i \in in :
                   LET k == Cardinality({j \in in : j <= i})
                   IN  /\ matched_events.Date[k] = events_df.Date[i]
                       /\ matched_events.Event[k] = events_df.Event[i]

\* window_days = 5 around the first row (day 0): the event of day 5 is
\* returned, the one of day 6 is not
C15_Witness ==
    /\ matched_events.kind = "ok"
    /\ args.tau = 0
    /\ args.window_days = DefaultWindowDays
    /\ events_df.Date = <<DefaultWindowDays + 1, DefaultWindowDays>>
    /\ events_df.Event = <<"A", "B">>
    /\ matched_events.Event = <<"B">>

\* every element of the tau_list of the call is a position 0 .. n - 1
AllValid ==
    \A k \in 1 .. Len(args.tau_list) :
        args.tau_list[k] >= 0 /\ args.tau_list[k] < Len(prices_df.Date)

\* C16: when every tau is a valid position, summarize_change_points returns
\* one row per element of tau_list, in the order of tau_list and without
\* merging repetitions; row k carries ChangePointIndex = tau_list[k], the Date
\* at that position and the fields of quantify_impact for that tau.
C16_OneRowPerTau ==
    (summary_df.kind # "unset" /\ AllValid) =>
        /\ summary_df.kind = "ok"
        /\ Len(summary_df.rows) = Len(args.tau_list)
        /\ \A k \in 1 .. Len(args.tau_list) :
               LET row == summary_df.rows[k]
                   tau == args.tau_list[k]
                   q == quantify_impact(prices_df, tau)
               IN  /\ row.ChangePointIndex = tau
                   /\ row.ChangePointDate = prices_df.Date[tau + 1]
                   /\ row.PriceBefore = q.before_mean
                   /\ row.PriceAfter = q.after_mean
                   /\ row.Change = q.change
                   /\ row.PercentChange = q.percent_change

\* tau_list = [1, 1] on a table of two rows: two rows for the same position
C16_Witness ==
    /\ summary_df.kind = "ok"
    /\ args.tau_list = <<1, 1>>
    /\ Len(prices_df.Date) = 2
    /\ Len(summary_df.rows) = 2
    /\ summary_df.rows[1] = summary_df.rows[2]
    /\ summary_df.rows[1].ChangePointIndex = 1

\* C17: the whole call fails, returning no table, whenever some tau is out
\* of bounds (tau < 0 or tau >= n); such a tau is never skipped or mapped to
\* another row.
C17_OutOfBoundsFails ==
    (summary_df.kind # "unset" /\ ~AllValid) => summary_df.kind = "IndexError"

\* the labels of the events within the default window of day c, from
\* position i down to 1, joined in front of acc
RECURSIVE LabelsWithin(_, _, _)
LabelsWithin(c, i, acc) ==
    IF i = 0 THEN acc
    ELSE IF i \in Within(c, DefaultWindowDays)
    THEN LabelsWithin(c, i - 1,
             IF acc = "" THEN events_df.Event[i]
             ELSE events_df.Event[i] \o ", " \o acc)
    ELSE LabelsWithin(c, i - 1, acc)

-----------------------------------------------------------------------------
(* Properties of repeated get_change_point calls (SpecIdem).               *)

-----------------------------------------------------------------------------
(* dashboard/backend/api_endpoints.get_change_points                       *)

\* most data rows of detected_events.csv
MaxCsvRows == 2

\* line 24
expected_cols == {"Date", "ChangePoint", "MeanBefore", "MeanAfter", "StdDev"}

\* a data row of the file: every cell filled and the date parseable, or the
\* Date cell not a date, or some cell left empty (read as NaN)
RowKinds == {"ok", "bad_date", "missing_cell"}

\* what is at csv_path: nothing, something that cannot be read as a file, a
\* file of zero bytes, or a CSV with a header and data rows
CsvFiles ==
    {[kind |-> "missing"], [kind |-> "unreadable"], [kind |-> "empty"]}
    \cup UNION {{[kind |-> "csv", columns |-> c, rows |-> r] :
                    c \in SUBSET (expected_cols \cup {"Note"}),
                    r \in [1 .. n -> RowKinds]} : n \in 0 .. MaxCsvRows}

NoException == [type |-> "none", status_code |-> 0]

\* lines 19-29: the exception the try block raises, if any.  read_csv raises
\* FileNotFoundError, another OSError or EmptyDataError; line 26 raises
\* HTTPException(400); to_datetime raises ValueError on text that is not a
\* date; JSONResponse raises ValueError on NaN (a missing cell, or the
\* strftime of a missing date)
TryBlock(f) ==
    IF f.kind = "missing"
    THEN [type |-> "FileNotFoundError", status_code |-> 0]
    ELSE IF f.kind = "unreadable" THEN [type |-> "OSError", status_code |-> 0]
    ELSE IF f.kind = "empty" THEN [type |-> "EmptyDataError", status_code |-> 0]
    ELSE IF ~(expected_cols \subseteq f.columns)
    THEN [type |-> "HTTPException", status_code |-> 400]
    ELSE IF \E i \in 1 .. Len(f.rows) : f.rows[i] = "bad_date"
    THEN [type |-> "ValueError", status_code |-> 0]
    ELSE IF \E i \in 1 .. Len(f.rows) : f.rows[i] = "missing_cell"
    THEN [type |-> "ValueError", status_code |-> 0]
    ELSE NoException

\* the except clauses without lines 34-35: HTTPException is an Exception
ExceptClausesNoReraise(e) ==
    IF e.type = "FileNotFoundError"
    THEN [kind |-> "response", status_code |-> 404]
    ELSE [kind |-> "response", status_code |-> 500]

\* lines 31-37: FileNotFoundError becomes a 404, an HTTPException is raised
\* again and answered with its own status, anything else becomes a 500
ExceptClauses(e) ==
    IF e.type = "FileNotFoundError"
    THEN [kind |-> "response", status_code |-> 404]
    ELSE IF e.type = "HTTPException"
    THEN [kind |-> "response", status_code |-> e.status_code]
    ELSE [kind |-> "response", status_code |-> 500]

\* lines 14-37; content is df.to_dict(orient="records"), one record per row
get_change_points(f) ==
    IF TryBlock(f) = NoException
    THEN [kind |-> "response", status_code |-> 200, content |-> f.rows]
    ELSE ExceptClauses(TryBlock(f))

InitApi ==
    /\ detected_events_csv \in CsvFiles
    /\ response = Unset
    /\ ReportIdle
    /\ FitIdle
    /\ PrepIdle
    /\ AnalysisIdle
    /\ PipelineIdle

\* GET /api/change_points
GetChangePoints ==
    /\ response.kind = "unset"
    /\ response' = get_change_points(detected_events_csv)
    /\ UNCHANGED <<detected_events_csv, reportVars, fitVars, prepVars,
                   analysisVars, pipeVars>>

NextApi == GetChangePoints

SpecApi == InitApi /\ [][NextApi]_vars

-----------------------------------------------------------------------------
(* Properties of GET /api/change_points (SpecApi).                         *)

\* the file is a CSV that carries every expected column
HasColumns ==
    detected_events_csv.kind = "csv"
        /\ expected_cols \subseteq detected_events_csv.columns

\* the file is a CSV whose rows all have a parseable date and no empty cell
RowsClean ==
    \A i \in 1 .. Len(detected_events_csv.rows) :
        detected_events_csv.rows[i] = "ok"

\* C20, as stated: 404 when the file does not exist, 400 when it exists but
\* lacks an expected column, 200 with one record per row otherwise.
C20_AsStated ==
    response.kind # "unset" =>
        IF detected_events_csv.kind = "missing" THEN response.status_code = 404
        ELSE IF ~HasColumns THEN response.status_code = 400
        ELSE /\ response.status_code = 200
             /\ Len(response.content) = Len(detected_events_csv.rows)

\* C20: GET /api/change_points answers 404 when the file does not exist, 400
\* when it is read as a table that lacks an expected column (the 400 raised
\* inside the handler is never turned into a 500), 500 when the file cannot
\* be read or is empty, or when it has the columns but a date that does not
\* parse or an empty cell, and 200 with one record per row otherwise.
C20_Statuses ==
    response.kind # "unset" =>
        IF detected_events_csv.kind = "missing" THEN response.status_code = 404
        ELSE IF detected_events_csv.kind # "csv" THEN response.status_code = 500
        ELSE IF ~HasColumns THEN response.status_code = 400
        ELSE IF ~RowsClean THEN response.status_code = 500
        ELSE /\ response.status_code = 200
             /\ Len(response.content) = Len(detected_events_csv.rows)

\* the file of test_change_points_400_when_columns_missing, answered 400
C20_Witness ==
    /\ response.kind = "response"
    /\ response.status_code = 400
    /\ detected_events_csv.kind = "csv"
    /\ detected_events_csv.columns = {"Date", "MeanBefore", "MeanAfter"}
    /\ detected_events_csv.rows = <<"ok">>

-----------------------------------------------------------------------------
(* Validation against inference errors in the fit (SpecFit).               *)

\* C21: a validation failure is reported as the ValueError itself, never as
\* the RuntimeError of sampling: the checks run before the model is built,
\* so a call that ends in a ValueError has built no model, drawn nothing and
\* caught nothing, and a RuntimeError is raised only for an input that passed
\* validation, after the model block raised.
C21_ValidationBeforeInference ==
    /\ fit.kind = "ValueError" =>
           /\ ValidationFailure(log_returns) # ""
           /\ fit.message = ValidationFailure(log_returns)
           /\ model = Unset /\ draw = Unset /\ exc = Unset
    /\ fit.kind = "RuntimeError" =>
           /\ ~InvalidFitInput
           /\ exc.kind = "raised"
    /\ (InvalidFitInput /\ pc # "start") =>
           /\ fit.kind = "ValueError"
           /\ pc = "raised"

\* a one-dimensional input that is too short, rejected before any model
\* was built
C21_Witness ==
    /\ fit.kind = "ValueError"
    /\ fit.message = "Time series too short for change point detection"
    /\ log_returns.kind = "array"
    /\ log_returns.ndim = 1
    /\ model = Unset
    /\ draw = Unset

-----------------------------------------------------------------------------
(* The estimate as a function of the multiset of samples (SpecIdem).       *)

\* how many cells of the chains x draws array m hold v
Occurrences(m, v) ==
    Cardinality({c \in (1 .. Len(m)) \X (1 .. Len(m[1])) : m[c[1]][c[2]] = v})

\* the arrays a and b hold the same samples, each as many times
SameSamples(a, b) == \A v \in TauVals : Occurrences(a, v) = Occurrences(b, v)

\* C22: the estimate get_change_point returns depends only on the multiset
\* of tau samples: any posterior holding the same samples in another order,
\* or split over chains in another way, gives the same tau_map; and the
\* flattened array returned has chains * draws elements.
C22_MultisetOnly ==
    cp.kind = "ok" =>
        /\ \A m \in TauArrays :
               SameSamples(m, trace.posterior.tau) =>
                   /\ get_change_point([posterior |-> [tau |-> m]]).kind = "ok"
                   /\ get_change_point([posterior |-> [tau |-> m]]).tau_map
                          = cp.tau_map
        /\ Len(cp.tau_samples)
               = Len(trace.posterior.tau) * Len(trace.posterior.tau[1])

\* one chain of three draws out of order: the same samples exist in five
\* other orders and as three chains of one draw
C22_Witness ==
    /\ cp.kind = "ok"
    /\ trace.posterior.tau = <<<<2, 0, 1>>>>
    /\ cp.tau_map = 1
    /\ Len(cp.tau_samples) = 3

-----------------------------------------------------------------------------
(* Failures of compute_log_returns (SpecPrep).                             *)

\* the argument is a table validation accepts: a DataFrame with rows, a
\* numeric Price column and no price <= 0
Accepted ==
    /\ prices.df.kind = "DataFrame"
    /\ prices.df.nrows > 0
    /\ "Price" \in prices.df.columns
    /\ prices.df.numeric
    /\ \A i \in 1 .. Len(prices.df.Price) :
           prices.df.Price[i].nan \/ prices.df.Price[i].num > 0

\* C23: every failure of compute_log_returns, raised by validation or by
\* anything else inside the call, reaches the caller as a PreprocessingError:
\* no other exception type escapes and a failed call returns no table.
C23_OnlyPreprocessingError ==
    returns.kind # "unset" =>
        /\ returns.kind \in {"ok", "PreprocessingError"}
        /\ returns.kind = "ok" <=> Accepted
        /\ returns.kind = "PreprocessingError" => "table" \notin DOMAIN returns

\* a list passed for the table: the AttributeError of df.empty reached the
\* caller as a PreprocessingError
C23_Witness ==
    /\ returns.kind = "PreprocessingError"
    /\ prices.df.kind = "list"
    /\ returns.message = "'list' object has no attribute 'empty'"

-----------------------------------------------------------------------------
(* preprocess.save_processed_data, preprocess.preprocess_brent_prices      *)

\* a path string, split as os.path.dirname does
Path(dirname, name) == [kind |-> "str", dirname |-> dirname, name |-> name]

\* output_path values: None, the empty string, a bare file name and a file
\* in a directory
Paths ==
    {PyNone, Path("", ""), Path("", "brent_processed.csv"),
     Path("../data/processed", "brent_processed.csv")}

\* line 126, if output_path: None and the empty string are false
Truthy(path) == path.kind = "str" /\ (path.dirname # "" \/ path.name # "")

\* a table without rows (it has columns)
TableEmpty(t) == Len(t.Price) = 0

\* save_processed_data without the check of lines 89-90
save_processed_data_unchecked(t, path) ==
    IF path.dirname = ""
    THEN [kind |-> "PreprocessingError",
          message |-> "[Errno 2] No such file or directory: ''"]
    ELSE [kind |-> "file", path |-> path, table |-> t]

\* lines 88-100: an empty table is refused, os.makedirs of an empty
\* directory name raises FileNotFoundError, otherwise the table is written;
\* every exception leaves as a PreprocessingError
save_processed_data(t, path) ==
    IF TableEmpty(t)
    THEN [kind |-> "PreprocessingError",
          message |-> "Cannot save empty dataframe."]
    ELSE IF path.dirname = ""
    THEN [kind |-> "PreprocessingError",
          message |-> "[Errno 2] No such file or directory: ''"]
    ELSE [kind |-> "file", path |-> path, table |-> t]

\* preprocess_brent_prices(df, output_path=...): compute_log_returns is
\* called with its default dropna=True
InitPipeline ==
    /\ prices \in {[kind |-> "call", df |-> d, dropna |-> TRUE] :
                      d \in DataFrames \cup {PyNone, PyList}}
    /\ returns = Unset
    /\ output_path \in Paths
    /\ saved = Unset
    /\ processed = Unset
    /\ ReportIdle
    /\ FitIdle
    /\ AnalysisIdle
    /\ ApiIdle

\* lines 126-127: save_processed_data(processed_df, output_path); what it
\* raises leaves preprocess_brent_prices through lines 132-134
SaveProcessedData ==
    /\ returns.kind = "ok"
    /\ Truthy(output_path)
    /\ saved.kind = "unset"
    /\ processed.kind = "unset"
    /\ LET r == save_processed_data(returns.table, output_path)
       IN  IF r.kind = "file"
           THEN saved' = r /\ processed' = processed
           ELSE saved' = saved /\ processed' = r
    /\ UNCHANGED <<output_path, reportVars, fitVars, prepVars, analysisVars,
                   apiVars>>

\* line 130: return processed_df
ReturnProcessed ==
    /\ returns.kind = "ok"
    /\ processed.kind = "unset"
    /\ Truthy(output_path) => saved.kind = "file"
    /\ processed' = [kind |-> "ok", table |-> returns.table]
    /\ UNCHANGED <<output_path, saved, reportVars, fitVars, prepVars,
                   analysisVars, apiVars>>

\* lines 132-134: what compute_log_returns raised is logged and raised again
Reraise ==
    /\ returns.kind = "PreprocessingError"
    /\ processed.kind = "unset"
    /\ processed' = returns
    /\ UNCHANGED <<output_path, saved, reportVars, fitVars, prepVars,
                   analysisVars, apiVars>>

NextPipeline ==
    \/ ComputeLogReturns
    \/ SaveProcessedData
    \/ ReturnProcessed
    \/ Reraise

SpecPipeline == InitPipeline /\ [][NextPipeline]_vars

-----------------------------------------------------------------------------
(* Properties of preprocess_brent_prices (SpecPipeline).                   *)

\* what both readings of C24 share: a file is written only after validation
\* and the computation succeeded and only for a non-empty output_path, it
\* holds the computed table, nothing is written when an earlier step failed
\* or when output_path is None or empty, and a table is returned only once
\* the save step, if due, has written it
WriteOrder ==
    /\ saved.kind = "file" =>
           /\ returns.kind = "ok"
           /\ Truthy(output_path)
           /\ saved.table = returns.table
           /\ saved.path = output_path
    /\ returns.kind \in {"unset", "PreprocessingError"} => saved = Unset
    /\ returns.kind = "PreprocessingError" =>
           processed.kind \in {"unset", "PreprocessingError"}
    /\ ~Truthy(output_path) => saved = Unset
    /\ processed.kind = "ok" =>
           /\ returns.kind = "ok"
           /\ processed.table = returns.table
           /\ Truthy(output_path) => saved.kind = "file"

\* the call is over with an empty computed table
EndedOnEmptyTable ==
    /\ returns.kind = "ok"
    /\ TableEmpty(returns.table)
    /\ processed.kind # "unset"

====
